---- MODULE Spec2Model ----
(***************************************************************************)
(* Model of the batch image pipeline of process_recipes.py: the batch      *)
(* driver main(), the per-record job process_recipe(), the write-back      *)
(* update_json_file() and slugify().                                       *)
(*                                                                         *)
(* A string is a sequence of one-character strings.  A JSON object (a      *)
(* Python dict, which keeps insertion order) is a sequence of <<key,       *)
(* value>> pairs.  A file is a sequence of tokens: an opening brace, the   *)
(* pairs, a closing brace.                                                 *)
(***************************************************************************)
EXTENDS Integers, Sequences, FiniteSets, TLC

\* ------------------------------------------------------------------ bounds

\* Number of *.json files in the recipes directory.
NumFiles == 3

\* ------------------------------------------------------------- constants

MAX_RETRIES == 3
RETRY_DELAY == 2

\* asyncio.Semaphore(CONCURRENT_LIMIT).  The source sets 10; the model runs
\* the limiter at a capacity below the number of files so that jobs queue.
CONCURRENT_LIMIT == 2

Paths == 1..NumFiles

\* ---------------------------------------------------------------- strings

\* Python None and JSON null.
NULL == <<"null">>

\* True of a Python value that is truthy: not None and not the empty string.
Truthy(v) == v # NULL /\ v # <<>>

LowerChars == {"a", "b"}
UpperChars == {"A", "B"}
DigitChars == {"1"}
SpaceChars == {" "}

ToLower(c) == IF c = "A" THEN "a" ELSE IF c = "B" THEN "b" ELSE c

RECURSIVE MapSeq(_, _)
MapSeq(Op(_), s) ==
    IF s = <<>> THEN <<>> ELSE <<Op(Head(s))>> \o MapSeq(Op, Tail(s))

\* re.sub over a character class followed by '+': every maximal run of
\* characters of `class` becomes the single character `rep`.
RECURSIVE CollapseRuns(_, _, _)
CollapseRuns(s, class, rep) ==
    IF s = <<>> THEN <<>>
    ELSE IF Head(s) \in class
         THEN IF Tail(s) # <<>> /\ Head(Tail(s)) \in class
              THEN CollapseRuns(Tail(s), class, rep)
              ELSE <<rep>> \o CollapseRuns(Tail(s), class, rep)
         ELSE <<Head(s)>> \o CollapseRuns(Tail(s), class, rep)

RECURSIVE LStrip(_, _)
LStrip(s, c) == IF s # <<>> /\ Head(s) = c THEN LStrip(Tail(s), c) ELSE s

RECURSIVE RStrip(_, _)
RStrip(s, c) ==
    IF s # <<>> /\ s[Len(s)] = c THEN RStrip(SubSeq(s, 1, Len(s) - 1), c) ELSE s

Strip(s, c) == RStrip(LStrip(s, c), c)

ReplacePipe(c) == IF c = "|" THEN " " ELSE c

KeptBySlug(c) == c \in LowerChars \cup DigitChars \cup SpaceChars \cup {"-"}

\* SlugCore without text.lower().
SlugCoreNoLower(text) ==
    LET t1 == MapSeq(ReplacePipe, text)
        t3 == SelectSeq(t1, KeptBySlug)
        t4 == CollapseRuns(t3, SpaceChars \cup {"_"}, "-")
        t5 == CollapseRuns(t4, {"-"}, "-")
    IN  Strip(t5, "-")

\* The slug before the emptiness test of slugify.
SlugCore(text) ==
    LET t1 == MapSeq(ReplacePipe, text)
        t2 == MapSeq(ToLower, t1)
        t3 == SelectSeq(t2, KeptBySlug)
        t4 == CollapseRuns(t3, SpaceChars \cup {"_"}, "-")
        t5 == CollapseRuns(t4, {"-"}, "-")
    IN  Strip(t5, "-")

\* The titles the records of the model carry.
TitleStrings == {<<"A", " ", "b">>, <<"B">>, <<"!">>}

\* The characters of the titles slugify is examined on: a letter in both
\* cases, a space, a punctuation mark, the hyphen, the underscore, the pipe.
SlugAlphabet == {"a", "A", " ", "!", "-", "_", "|"}

\* Longest title of SlugInputs.
MaxTitleLen == 3

\* Every non-empty string over SlugAlphabet up to MaxTitleLen characters.
SlugInputs == UNION {[1..n -> SlugAlphabet] : n \in 1..MaxTitleLen}

\* SlugCore over TitleStrings, as a set of <<text, slug>> pairs that is
\* evaluated once.
SlugTable == {<<t, SlugCore(t)>> : t \in TitleStrings}

\* slugify(text); u is the value uuid.uuid4() yields if it is called.
slugify(text, u) ==
    LET core == IF text \in TitleStrings
                THEN (CHOOSE pr \in SlugTable : pr[1] = text)[2]
                ELSE SlugCore(text)
    IN  IF core = <<>> THEN u ELSE core

\* Values str(uuid.uuid4()) can take.
UUIDs == {<<"u", "1">>, <<"u", "2">>}

\* ---------------------------------------------------------------- records

Has(rec, k) == \E p \in 1..Len(rec) : rec[p][1] = k

\* dict.get(k): the value, None when the key is absent.
Get(rec, k) ==
    IF Has(rec, k) THEN rec[CHOOSE p \in 1..Len(rec) : rec[p][1] = k][2] ELSE NULL

\* dict.get(k, default)
GetOr(rec, k, default) ==
    IF Has(rec, k) THEN rec[CHOOSE p \in 1..Len(rec) : rec[p][1] = k][2] ELSE default

\* rec[k] = v: replaces the value in place, or appends a new key.
SetKey(rec, k, v) ==
    IF Has(rec, k)
    THEN [p \in 1..Len(rec) |-> IF rec[p][1] = k THEN <<k, v>> ELSE rec[p]]
    ELSE Append(rec, <<k, v>>)

LBRACE == <<"{", <<>>>>
RBRACE == <<"}", <<>>>>

\* json.dump(data, f, indent=2): the tokens written, in order.
Dump(rec) == <<LBRACE>> \o rec \o <<RBRACE>>

\* json.load succeeds on exactly the content that is one complete object.
Parseable(c) ==
    /\ Len(c) >= 2
    /\ c[1] = LBRACE
    /\ c[Len(c)] = RBRACE
    /\ \A p \in 2..(Len(c) - 1) : c[p] # LBRACE /\ c[p] # RBRACE

\* json.load(f) of parseable content.
Load(c) == SubSeq(c, 2, Len(c) - 1)


\* The URL get_public_url returns for the upload path "<slug>.webp".
PublicUrl(slug) == <<"h">> \o slug \o <<".webp">>

\* ------------------------------------------------------- the record store

MkRec(image_url, title, slug, gen) ==
    <<<<"url", <<"a">>>>, <<"image_url", image_url>>>>
      \o (IF title = <<"absent">> THEN <<>> ELSE <<<<"title", title>>>>)
      \o (IF slug = <<"absent">> THEN <<>> ELSE <<<<"slug", slug>>>>)
      \o (IF gen = <<"absent">> THEN <<>> ELSE <<<<"generated_image_url", gen>>>>)
      \o <<<<"tags", <<"b">>>>>>

ImageUrls == {NULL, <<"a">>}
Titles == {<<"absent">>} \cup TitleStrings
Slugs == {<<"absent">>, <<>>, <<"b">>}
GenUrls == {<<"absent">>, <<>>, <<"h", "b">>}

\* A *.json entry that open() refuses (a directory, a file without read
\* permission): open raises OSError, which is IOError.
Unopenable == <<<<"EACCES", <<>>>>>>

\* A file whose bytes are not text in the encoding open() uses: the read
\* inside json.load raises UnicodeDecodeError, a ValueError that is neither
\* json.JSONDecodeError nor IOError.
Undecodable == <<<<"0xff", <<>>>>>>

\* A file holding JSON that is not an object, here the list []: json.load
\* returns a list.
NonObject == <<<<"[", <<>>>>, <<"]", <<>>>>>>

\* The files that are not a record: an empty file and the three above.
BrokenContents == {<<>>, Unopenable, Undecodable, NonObject}

\* What a file of the recipes directory can hold when the run starts: a
\* record written by the scraper or by an earlier run, or no record.
FileContents ==
    { Dump(MkRec(i, t, s, g)) : i \in ImageUrls, t \in Titles, s \in Slugs, g \in GenUrls }
      \cup BrokenContents

\* ------------------------------------------------------------------ state

VARIABLES
    files,                    \* path -> content on disk
    disk0,                    \* path -> content on disk when the run started
    env,                      \* what the process finds: the directory, the environment variables
    earlier_runs,             \* per earlier run over this store: the paths whose job succeeded
    mainPc,                   \* where the script is: "import", "check", "main", "load",
                              \* "gather", "done", or ended early: "exited", "crashed"
    loadIdx,                  \* index of the next file of all_recipe_files
    already_processed_count,
    recipes_missing_image,    \* titles, in order
    recipes_to_process,       \* paths, in order (the recipe is recipe_mem[path])
    recipe_mem,               \* path -> the recipe dict main() holds in memory
    warnings,                 \* paths reported as unreadable
    printed_counts,           \* the counts printed after loading
    printed_final,            \* the lines printed after gather
    jpc,                      \* path -> where its process_recipe task is
    attempt,                  \* path -> loop variable of the retry loop
    result,                   \* path -> return value of process_recipe
    err,                      \* path -> the kind of the exception being handled or that ended the job
    slept,                    \* path -> the wait_time of every backoff sleep
    response,                 \* path -> what handler.get() returned, until the job has used it
    sem_value,                \* asyncio.Semaphore._value
    waiters                   \* asyncio.Semaphore._waiters, FIFO

driverVars == <<mainPc, loadIdx, already_processed_count, recipes_missing_image,
                recipes_to_process, recipe_mem, warnings, printed_counts, printed_final>>
jobVars == <<jpc, attempt, result, err, slept, response, sem_value, waiters>>
vars == <<files, disk0, env, earlier_runs, driverVars, jobVars>>

\* What handler.get() can return: None or an empty dict, a dict without the
\* key 'images', a dict with an empty list of images, a dict with an image.
Responses == {"none", "no_images_key", "empty_images", "images"}

\* What the process can find when it starts: whether the recipes directory
\* exists, and whether each environment variable is set to a non-empty value.
\* api is the set of responses the generation service gives in this
\* environment whenever handler.get() returns.
Envs == [dir : BOOLEAN, FAL_KEY : BOOLEAN, SUPABASE_URL : BOOLEAN, SUPABASE_KEY : BOOLEAN,
         api : {Responses}]

\* The directory exists and every variable is set.
FullEnv == [dir |-> TRUE, FAL_KEY |-> TRUE, SUPABASE_URL |-> TRUE, SUPABASE_KEY |-> TRUE,
            api |-> Responses]

\* FullEnv with a generation service that, when handler.get() returns,
\* returns a response with an image (it can still raise).
ImagesEnv == [FullEnv EXCEPT !.api = {"images"}]

\* The state when the interpreter starts the script in environment e with
\* the directory holding `contents`.
InitEnv(e, contents) ==
    /\ env = e
    /\ earlier_runs = <<>>
    /\ files = contents
    /\ disk0 = contents
    /\ mainPc = "import"
    /\ loadIdx = 1
    /\ already_processed_count = 0
    /\ recipes_missing_image = <<>>
    /\ recipes_to_process = <<>>
    /\ recipe_mem = [p \in Paths |-> <<>>]
    /\ warnings = {}
    /\ printed_counts = [printed |-> FALSE, total |-> 0, already |-> 0, missing |-> 0, new |-> 0]
    /\ printed_final = [printed |-> FALSE, successful |-> 0, skipped |-> <<>>]
    /\ jpc = [p \in Paths |-> "none"]
    /\ attempt = [p \in Paths |-> 0]
    /\ result = [p \in Paths |-> NULL]
    /\ err = [p \in Paths |-> "none"]
    /\ slept = [p \in Paths |-> <<>>]
    /\ response = [p \in Paths |-> "unset"]
    /\ sem_value = 0
    /\ waiters = <<>>

\* The script is started with every precondition met.
InitWith(contents) == InitEnv(FullEnv, contents)

\* --------------------------------------------------------------- start-up

\* Lines 26-40: the module reads the environment and creates the Supabase
\* client.  create_client returns when URL and key are set; when one is
\* missing it raises (and the script calls exit()) or, in a library version
\* that does not validate its arguments, returns.
Import ==
    /\ mainPc = "import"
    /\ \E raised \in BOOLEAN :
          /\ raised => ~(env.SUPABASE_URL /\ env.SUPABASE_KEY)
          /\ mainPc' = IF raised THEN "exited" ELSE "check"
    /\ UNCHANGED <<files, disk0, env, earlier_runs, loadIdx, already_processed_count,
                   recipes_missing_image, recipes_to_process, recipe_mem, warnings,
                   printed_counts, printed_final, jobVars>>

\* CheckKeys without the test of FAL_KEY.
CheckKeysNoFal ==
    /\ mainPc = "check"
    /\ mainPc' = IF env.SUPABASE_URL /\ env.SUPABASE_KEY THEN "main" ELSE "exited"
    /\ UNCHANGED <<files, disk0, env, earlier_runs, loadIdx, already_processed_count,
                   recipes_missing_image, recipes_to_process, recipe_mem, warnings,
                   printed_counts, printed_final, jobVars>>

\* Lines 195-201: main() runs only when FAL_KEY, SUPABASE_URL and
\* SUPABASE_KEY are all set.
CheckKeys ==
    /\ mainPc = "check"
    /\ mainPc' = IF env.FAL_KEY /\ env.SUPABASE_URL /\ env.SUPABASE_KEY
                 THEN "main" ELSE "exited"
    /\ UNCHANGED <<files, disk0, env, earlier_runs, loadIdx, already_processed_count,
                   recipes_missing_image, recipes_to_process, recipe_mem, warnings,
                   printed_counts, printed_final, jobVars>>

\* Lines 135-145: main() returns when the recipes directory is missing, else
\* lists the directory and starts the load loop.
EnterMain ==
    /\ mainPc = "main"
    /\ mainPc' = IF env.dir THEN "load" ELSE "exited"
    /\ UNCHANGED <<files, disk0, env, earlier_runs, loadIdx, already_processed_count,
                   recipes_missing_image, recipes_to_process, recipe_mem, warnings,
                   printed_counts, printed_final, jobVars>>

\* ------------------------------------------------------------ main: load

\* IsCompleted asking for a slug in the file as well.
IsCompletedNeedsSlug(recipe) ==
    /\ Has(recipe, "generated_image_url") /\ Truthy(Get(recipe, "generated_image_url"))
    /\ Has(recipe, "slug")

\* IsCompleted testing a key the records do not carry.
IsCompletedWrongKey(recipe) ==
    Has(recipe, "generated_url") /\ Truthy(Get(recipe, "generated_url"))

\* Lines 151-153: the record already carries a generated image.
IsCompleted(recipe) ==
    Has(recipe, "generated_image_url") /\ Truthy(Get(recipe, "generated_image_url"))

\* Lines 156-159: the slug derived from the title when the record has none.
Backfill(recipe, u) ==
    IF ~Has(recipe, "slug") \/ ~Truthy(Get(recipe, "slug"))
    THEN IF Truthy(Get(recipe, "title"))
         THEN SetKey(recipe, "slug", slugify(Get(recipe, "title"), u))
         ELSE recipe
    ELSE recipe

\* IsEligible without the test of the slug.
IsEligibleNoSlug(recipe) == Truthy(Get(recipe, "image_url"))

\* Line 161: the record can be processed.
IsEligible(recipe) == Truthy(Get(recipe, "image_url")) /\ Truthy(Get(recipe, "slug"))

\* Lines 149-157: the iteration raises an exception the except clause of
\* line 165 does not catch.  UnicodeDecodeError comes out of json.load; on a
\* list, `'generated_image_url' in recipe` and `'slug' not in recipe` are
\* evaluated (False, True) and recipe.get raises AttributeError.
RaisesUncaught(content) == content = Undecodable \/ content = NonObject

\* Lines 148-166: what one iteration of the loop finds in a file.
Classify(content, u) ==
    IF RaisesUncaught(content) THEN [class |-> "Raises", recipe |-> <<>>]
    ELSE IF ~Parseable(content) THEN [class |-> "Unreadable", recipe |-> <<>>]
    ELSE IF IsCompleted(Load(content)) THEN [class |-> "Completed", recipe |-> Load(content)]
    ELSE IF IsEligible(Backfill(Load(content), u))
         THEN [class |-> "Eligible", recipe |-> Backfill(Load(content), u)]
         ELSE [class |-> "Skipped", recipe |-> Backfill(Load(content), u)]

\* One iteration of the loop over all_recipe_files.  An exception that is
\* not caught leaves main() and asyncio.run: the script ends with a traceback.
LoadRecord ==
    /\ mainPc = "load"
    /\ loadIdx <= NumFiles
    /\ \E u \in UUIDs :
          LET found == Classify(files[loadIdx], u) IN
          /\ mainPc' = IF found.class = "Raises" THEN "crashed" ELSE mainPc
          /\ loadIdx' = IF found.class = "Raises" THEN loadIdx ELSE loadIdx + 1
          /\ recipe_mem' = [recipe_mem EXCEPT ![loadIdx] = found.recipe]
          /\ warnings' =
                IF found.class = "Unreadable" THEN warnings \cup {loadIdx} ELSE warnings
          /\ already_processed_count' =
                IF found.class = "Completed" THEN already_processed_count + 1
                                             ELSE already_processed_count
          /\ recipes_to_process' =
                IF found.class = "Eligible" THEN Append(recipes_to_process, loadIdx)
                                            ELSE recipes_to_process
          /\ recipes_missing_image' =
                IF found.class = "Skipped"
                THEN Append(recipes_missing_image,
                            GetOr(found.recipe, "title", <<"Untitled Recipe">>))
                ELSE recipes_missing_image
    /\ UNCHANGED <<files, disk0, env, earlier_runs, printed_counts, printed_final, jobVars>>

\* Lines 168-184: print the counts; return when there is nothing to process,
\* else create the semaphore and one task per entry of recipes_to_process.
Summarise ==
    /\ mainPc = "load"
    /\ loadIdx > NumFiles
    /\ printed_counts' = [printed |-> TRUE,
                          total |-> NumFiles,
                          already |-> already_processed_count,
                          missing |-> Len(recipes_missing_image),
                          new |-> Len(recipes_to_process)]
    /\ IF recipes_to_process = <<>>
       THEN /\ mainPc' = "done"
            /\ UNCHANGED <<jpc, sem_value>>
       ELSE /\ mainPc' = "gather"
            /\ sem_value' = CONCURRENT_LIMIT
            /\ jpc' = [p \in Paths |->
                         IF \E k \in 1..Len(recipes_to_process) : recipes_to_process[k] = p
                         THEN "created" ELSE "none"]
    /\ UNCHANGED <<files, disk0, env, earlier_runs, loadIdx, already_processed_count, recipes_missing_image,
                   recipes_to_process, recipe_mem, warnings, printed_final,
                   attempt, result, err, slept, response, waiters>>


\* ------------------------------------------------- process_recipe: the job

Jobs == {p \in Paths : jpc[p] # "none"}

\* The jobs inside the body of `async with semaphore`.
Holders == {p \in Paths : jpc[p] \in {"submit", "get", "download", "convert",
                                       "upload", "geturl", "write", "sleep"}}

\* An exception of an external call: one whose message holds "Resource
\* temporarily unavailable", or any other.
ErrorKinds == {"transient", "permanent"}

\* Start entering the body without waiting for a free slot.
StartUnbounded(i) ==
    /\ jpc[i] = "created"
    /\ sem_value' = sem_value - 1
    /\ jpc' = [jpc EXCEPT ![i] = "submit"]
    /\ UNCHANGED <<files, disk0, env, earlier_runs, driverVars, attempt, result, err, slept, response, waiters>>

\* Lines 65, 70: the task starts, enters `async with semaphore` and, once it
\* holds a slot, starts its first submission.  Semaphore.acquire returns at
\* once when a slot is free and nobody waits; else the task joins the queue.
Start(i) ==
    /\ jpc[i] = "created"
    /\ IF sem_value > 0 /\ waiters = <<>>
       THEN /\ sem_value' = sem_value - 1
            /\ jpc' = [jpc EXCEPT ![i] = "submit"]
            /\ UNCHANGED waiters
       ELSE /\ waiters' = Append(waiters, i)
            /\ jpc' = [jpc EXCEPT ![i] = "waiting"]
            /\ UNCHANGED sem_value
    /\ UNCHANGED <<files, disk0, env, earlier_runs, driverVars, attempt, result, err, slept, response>>

\* Return keeping the slot when the job failed.
ReturnLeaksOnFailure(i, res) ==
    /\ result' = [result EXCEPT ![i] = res]
    /\ IF res = NULL \/ waiters = <<>>
       THEN /\ sem_value' = IF res = NULL THEN sem_value ELSE sem_value + 1
            /\ jpc' = [jpc EXCEPT ![i] = "done"]
            /\ UNCHANGED waiters
       ELSE /\ waiters' = Tail(waiters)
            /\ jpc' = [jpc EXCEPT ![i] = "done", ![Head(waiters)] = "submit"]
            /\ UNCHANGED sem_value

\* Leaving `async with semaphore` with return value res: Semaphore.release
\* frees the slot and wakes the first waiter, which takes the slot and starts
\* its first submission.
Return(i, res) ==
    /\ result' = [result EXCEPT ![i] = res]
    /\ IF waiters = <<>>
       THEN /\ sem_value' = sem_value + 1
            /\ jpc' = [jpc EXCEPT ![i] = "done"]
            /\ UNCHANGED waiters
       ELSE /\ waiters' = Tail(waiters)
            /\ jpc' = [jpc EXCEPT ![i] = "done", ![Head(waiters)] = "submit"]
            /\ UNCHANGED sem_value

\* Retryable allowing one attempt more.
RetryableOneMore(kind, att) == kind = "transient" /\ att < MAX_RETRIES

\* Retryable without the test of the message of the exception.
RetryableAnyError(kind, att) == att < MAX_RETRIES - 1

\* Lines 123-131: the except clause, for an exception of `kind` raised in
\* `stage`.
Retryable(kind, att) == kind = "transient" /\ att < MAX_RETRIES - 1

\* WaitTime counting the attempts from 1.
WaitTimeFromOne(att) == RETRY_DELAY * (2 ^ (att + 1))

\* Line 125: wait_time.
WaitTime(att) == RETRY_DELAY * (2 ^ att)

\* Except giving the slot back for the time of the sleep.
ExceptReleasesToSleep(i, kind, stage) ==
    /\ err' = [err EXCEPT ![i] = kind]
    /\ IF Retryable(kind, attempt[i])
       THEN /\ slept' = [slept EXCEPT ![i] = Append(slept[i], WaitTime(attempt[i]))]
            /\ jpc' = [jpc EXCEPT ![i] = "sleep"]
            /\ sem_value' = sem_value + 1
            /\ UNCHANGED <<result, waiters>>
       ELSE /\ Return(i, NULL)
            /\ UNCHANGED slept

Except(i, kind, stage) ==
    /\ err' = [err EXCEPT ![i] = kind]
    /\ IF Retryable(kind, attempt[i])
       THEN /\ slept' = [slept EXCEPT ![i] = Append(slept[i], WaitTime(attempt[i]))]
            /\ jpc' = [jpc EXCEPT ![i] = "sleep"]
            /\ UNCHANGED <<result, sem_value, waiters>>
       ELSE /\ Return(i, NULL)
            /\ UNCHANGED slept

\* Wake going on with the write-back instead of a new submission.
WakeResumesAtWrite(i) ==
    /\ jpc[i] = "sleep"
    /\ attempt' = [attempt EXCEPT ![i] = attempt[i] + 1]
    /\ jpc' = [jpc EXCEPT ![i] = "write"]
    /\ err' = [err EXCEPT ![i] = "none"]
    /\ UNCHANGED <<files, disk0, env, earlier_runs, driverVars, result, slept, response, sem_value, waiters>>

\* Lines 127-128, 66: the sleep ends and the next iteration of the loop begins.
Wake(i) ==
    /\ jpc[i] = "sleep"
    /\ attempt' = [attempt EXCEPT ![i] = attempt[i] + 1]
    /\ jpc' = [jpc EXCEPT ![i] = "submit"]
    /\ err' = [err EXCEPT ![i] = "none"]
    /\ UNCHANGED <<files, disk0, env, earlier_runs, driverVars, result, slept, response, sem_value, waiters>>

\* An awaited call of `stage` returns; `next` is the stage that follows it.
Returns(i, stage, next) ==
    /\ jpc[i] = stage
    /\ jpc' = [jpc EXCEPT ![i] = next]
    /\ UNCHANGED <<files, disk0, env, earlier_runs, driverVars, attempt, result, err, slept, sem_value, waiters>>

\* An awaited call of `stage` raises an exception of `kind`.
Raises(i, stage, kind) ==
    /\ jpc[i] = stage
    /\ Except(i, kind, stage)
    /\ UNCHANGED <<files, disk0, env, earlier_runs, driverVars, attempt>>

\* Lines 70-72: fal_client.submit.
Submit(i) ==
    /\ \/ Returns(i, "submit", "get")
       \/ \E kind \in ErrorKinds : Raises(i, "submit", kind)
    /\ UNCHANGED response

\* HasImages taking an empty list of images for images.
HasImagesKey(resp) == resp \in {"images", "empty_images"}

\* Line 75: the response holds at least one image.
HasImages(resp) == resp = "images"

\* Lines 73-78: handler.get() returns or raises; a response without images
\* raises ValueError("Fal.ai returned no images."), whose message is not
\* that of a transient error; from a response with images the job takes the
\* URL of the first and goes on to download it.
GetResult(i) ==
    \/ \E resp \in env.api :
          /\ response' = [response EXCEPT ![i] = resp]
          /\ IF HasImages(resp) THEN Returns(i, "get", "download")
                                ELSE Raises(i, "get", "permanent")
    \/ /\ \E kind \in ErrorKinds : Raises(i, "get", kind)
       /\ UNCHANGED response

\* Lines 82-84: httpx_client.get and raise_for_status.  The response of the
\* generation call is not used after its URL was taken.
Download(i) ==
    /\ \/ Returns(i, "download", "convert")
       \/ \E kind \in ErrorKinds : Raises(i, "download", kind)
    /\ response' = [response EXCEPT ![i] = "unset"]

\* Convert going on with the write-back, without the upload.
ConvertSkipsUpload(i) ==
    /\ \/ Returns(i, "convert", "write")
       \/ \E kind \in ErrorKinds : Raises(i, "convert", kind)
    /\ UNCHANGED response

\* Lines 88-93: convert_to_webp.
Convert(i) ==
    /\ \/ Returns(i, "convert", "upload")
       \/ \E kind \in ErrorKinds : Raises(i, "convert", kind)
    /\ UNCHANGED response

\* Lines 96-103: the upload to "<slug>.webp".
Upload(i) ==
    /\ \/ Returns(i, "upload", "geturl")
       \/ \E kind \in ErrorKinds : Raises(i, "upload", kind)
    /\ UNCHANGED response

\* Lines 104-107: get_public_url.
GetPublicUrl(i) ==
    /\ \/ Returns(i, "geturl", "write")
       \/ \E kind \in ErrorKinds : Raises(i, "geturl", kind)
    /\ UNCHANGED response

\* Line 58: recipe_slug of the job.
JobSlug(i) == Get(recipe_mem[i], "slug")

\* Line 96: upload_path of the job.
UploadPath(i) == JobSlug(i) \o <<".webp">>

\* supabase_image_url of the job.
JobUrl(i) == PublicUrl(Get(recipe_mem[i], "slug"))

\* NewData setting the source image instead of the generated one.
NewDataWrongKey(content, url) == SetKey(Load(content), "image_url", url)

\* NewData serializing the recipe as main() holds it, slug included.
NewDataFromMemory(content, url) ==
    SetKey(Backfill(Load(content), CHOOSE u \in UUIDs : TRUE), "generated_image_url", url)

\* Lines 113-114: the dict update_json_file serializes.
NewData(content, url) == SetKey(Load(content), "generated_image_url", url)

\* Lines 115-116: the file after json.dump wrote the first k tokens of `new`
\* over `old` from offset 0, before any truncate.
Overwrite(old, new, k) ==
    SubSeq(new, 1, k) \o (IF k < Len(old) THEN SubSeq(old, k + 1, Len(old)) ELSE <<>>)

\* Lines 111-121: update_json_file, then the return of the URL.
\*   - open() raises: the file is untouched;
\*   - json.load raises JSONDecodeError on content that is no JSON object;
\*   - a write of json.dump (or the flush of truncate) raises after k tokens;
\*   - all of them succeed, truncate cuts the file after the new content and
\*     the task returns supabase_image_url.
UpdateFile(i) ==
    /\ jpc[i] = "write"
    /\ \/ /\ \E kind \in ErrorKinds : Except(i, kind, "write")
          /\ UNCHANGED files
       \/ /\ ~Parseable(files[i])
          /\ Except(i, "permanent", "write")
          /\ UNCHANGED files
       \/ /\ Parseable(files[i])
          /\ LET new == Dump(NewData(files[i], JobUrl(i))) IN
             \E k \in 0..Len(new), kind \in ErrorKinds :
                /\ files' = [files EXCEPT ![i] = Overwrite(files[i], new, k)]
                /\ Except(i, kind, "write")
       \/ /\ Parseable(files[i])
          /\ files' = [files EXCEPT ![i] = Dump(NewData(files[i], JobUrl(i)))]
          /\ Return(i, JobUrl(i))
          /\ UNCHANGED <<err, slept>>
    /\ UNCHANGED <<disk0, env, earlier_runs, driverVars, attempt, response>>

\* ---------------------------------------------------------- main: gather

\* Lines 184-193: gather returns when every task has returned; main prints
\* the number of successes and the titles of the skipped records.
Finish ==
    /\ mainPc = "gather"
    /\ \A p \in Jobs : jpc[p] = "done"
    /\ mainPc' = "done"
    /\ printed_final' =
         [printed |-> TRUE,
          successful |-> Cardinality({k \in 1..Len(recipes_to_process) :
                                         result[recipes_to_process[k]] # NULL}),
          skipped |-> recipes_missing_image]
    /\ UNCHANGED <<files, disk0, env, earlier_runs, loadIdx, already_processed_count, recipes_missing_image,
                   recipes_to_process, recipe_mem, warnings, printed_counts, jobVars>>

\* Lines 121, 131, 187: the tasks that returned a URL, and those that
\* returned None.
Succeeded == {p \in Paths : jpc[p] = "done" /\ result[p] # NULL}
Failed == {p \in Paths : jpc[p] = "done" /\ result[p] = NULL}

\* Line 56: the title process_recipe prints.
JobTitle(i) == GetOr(recipe_mem[i], "title", <<"Untitled">>)

\* Lines 168-171, 187-188: the count the summary prints under `label`, -1
\* when it prints no such count.
ReportedCount(label) ==
    IF printed_final.printed /\ label = "successful" THEN printed_final.successful
    ELSE IF printed_counts.printed /\ label \in {"total", "already", "missing", "new"}
         THEN printed_counts[label]
         ELSE -1

\* Lines 190-193: the titles the final summary lists.
SummaryTitles ==
    IF printed_final.printed
    THEN {printed_final.skipped[k] : k \in 1..Len(printed_final.skipped)}
    ELSE {}

JobStep(i) ==
    \/ Start(i)
    \/ Submit(i)
    \/ GetResult(i)
    \/ Download(i)
    \/ Convert(i)
    \/ Upload(i)
    \/ GetPublicUrl(i)
    \/ UpdateFile(i)
    \/ Wake(i)

Next ==
    \/ Import
    \/ CheckKeys
    \/ EnterMain
    \/ LoadRecord
    \/ Summarise
    \/ \E i \in Paths : JobStep(i)
    \/ Finish

\* -------------------------------------------------------------- re-running

\* Number of runs of the script over one store.
MaxRuns == 2

\* The script has ended and is started again over the store it left: a new
\* process, with nothing in memory from the run before.
Rerun ==
    /\ mainPc = "done"
    /\ Len(earlier_runs) < MaxRuns - 1
    /\ earlier_runs' = Append(earlier_runs, Succeeded)
    /\ disk0' = files
    /\ mainPc' = "import"
    /\ loadIdx' = 1
    /\ already_processed_count' = 0
    /\ recipes_missing_image' = <<>>
    /\ recipes_to_process' = <<>>
    /\ recipe_mem' = [p \in Paths |-> <<>>]
    /\ warnings' = {}
    /\ printed_counts' = [printed |-> FALSE, total |-> 0, already |-> 0, missing |-> 0, new |-> 0]
    /\ printed_final' = [printed |-> FALSE, successful |-> 0, skipped |-> <<>>]
    /\ jpc' = [p \in Paths |-> "none"]
    /\ attempt' = [p \in Paths |-> 0]
    /\ result' = [p \in Paths |-> NULL]
    /\ err' = [p \in Paths |-> "none"]
    /\ slept' = [p \in Paths |-> <<>>]
    /\ response' = [p \in Paths |-> "unset"]
    /\ sem_value' = 0
    /\ waiters' = <<>>
    /\ UNCHANGED <<files, env>>

NextRerun == Next \/ Rerun

\* ------------------------------------------------------- specifications

CompletedFile == Dump(MkRec(<<"a">>, <<"A", " ", "b">>, <<"absent">>, <<"h", "b">>))

\* A record as the scraper writes it: no slug, no generated_image_url.
ScrapedFile == Dump(MkRec(<<"a">>, <<"A", " ", "b">>, <<"absent">>, <<"absent">>))

\* The files of a batch run: a completed record, a completed record without
\* source image or title, a scraped record, a scraped record without source
\* image, and an empty file.
RunContents ==
    { CompletedFile,
      Dump(MkRec(NULL, <<"absent">>, <<"absent">>, <<"h", "b">>)),
      ScrapedFile,
      Dump(MkRec(NULL, <<"A", " ", "b">>, <<"absent">>, <<"absent">>)),
      <<>> }

\* A batch run over NumFiles files, with a generation service that returns
\* images or raises (a response without images ends a job as an exception
\* that is not transient does).
Init == \E contents \in [Paths -> RunContents] : InitEnv(ImagesEnv, contents)

Spec == Init /\ [][Next]_vars

\* A run in which one file holds any record and the others are completed.
InitRecord ==
    \E c \in FileContents : InitWith([p \in Paths |-> IF p = 1 THEN c ELSE CompletedFile])

RecordSpec == InitRecord /\ [][Next]_vars

\* A store in which a file that is no record sits between two scraped
\* records.
InitStore ==
    \E c \in BrokenContents :
        InitWith([p \in Paths |-> IF p = 1 \/ p = NumFiles THEN ScrapedFile ELSE c])

StoreSpec == InitStore /\ [][Next]_vars

\* A store whose first file is a scraped record with any title of
\* SlugInputs; the other records are completed.
InitSlug ==
    \E t \in SlugInputs :
        InitWith([p \in Paths |-> IF p = 1
                                  THEN Dump(MkRec(<<"a">>, t, <<"absent">>, <<"absent">>))
                                  ELSE CompletedFile])

SlugSpec == InitSlug /\ [][Next]_vars

\* The script started in any environment, over a store of scraped records
\* and one completed record.
InitStartup ==
    \E e \in Envs :
        InitEnv(e, [p \in Paths |-> IF p = NumFiles THEN CompletedFile ELSE ScrapedFile])

StartupSpec == InitStartup /\ [][Next]_vars

\* A scraped record with the title "B".
ScrapedFileB == Dump(MkRec(<<"a">>, <<"B">>, <<"absent">>, <<"absent">>))

\* A store of any record, the scraped record titled "B" and a completed
\* record.
InitPair ==
    \E c \in FileContents :
        InitWith([p \in Paths |-> IF p = 1 THEN c
                                  ELSE IF p = 2 THEN ScrapedFileB ELSE CompletedFile])

PairSpec == InitPair /\ [][Next]_vars

\* Runs of the script one after the other over a store of two records of
\* any kind of RunContents and a completed record.
InitRerun ==
    \E contents \in [Paths -> RunContents] :
        /\ contents[NumFiles] = CompletedFile
        /\ InitWith(contents)

RerunSpec == InitRerun /\ [][NextRerun]_vars

\* The event loop runs a task whenever one can run, and every awaited call
\* returns or raises: a step that can be taken is eventually taken.
Fairness == WF_vars(Next)

FairSpec == Init /\ [][Next]_vars /\ Fairness


\* ------------------------------------------------------------------ claims

GenKey == "generated_image_url"

\* The value of key k in the content of a file, <<"absent">> without the key.
FieldOf(content, k) ==
    IF \E q \in 1..Len(content) : content[q][1] = k
    THEN content[CHOOSE q \in 1..Len(content) : content[q][1] = k][2]
    ELSE <<"absent">>

NonEmpty(v) == v \notin {<<"absent">>, NULL, <<>>}

\* C1: at no point do more jobs hold a slot of the limiter than its
\* capacity, and the free slots plus the held slots are the capacity.
C1_SlotsBounded ==
    /\ Cardinality(Holders) <= CONCURRENT_LIMIT
    /\ mainPc = "gather" => sem_value + Cardinality(Holders) = CONCURRENT_LIMIT

\* Every slot is held while another job waits for one.
C1_Witness == Cardinality(Holders) = CONCURRENT_LIMIT /\ waiters # <<>>

\* C2: a record whose generated_image_url is non-empty when the run starts
\* never gets a job (so no call is made for it) and its file is never written.
C2_CompletedUntouched ==
    \A p \in Paths :
        (Parseable(disk0[p]) /\ NonEmpty(FieldOf(disk0[p], GenKey)))
            => /\ jpc[p] = "none"
               /\ \A k \in 1..Len(recipes_to_process) : recipes_to_process[k] # p
               /\ files[p] = disk0[p]
               /\ result[p] = NULL

\* The run is over, a job ran to its end, and a completed record with a
\* source image and a title was left alone.
C2_Witness ==
    /\ mainPc = "done"
    /\ \E p \in Paths : jpc[p] = "done"
    /\ \E p \in Paths : /\ NonEmpty(FieldOf(disk0[p], GenKey))
                        /\ NonEmpty(FieldOf(disk0[p], "image_url"))
                        /\ NonEmpty(FieldOf(disk0[p], "title"))
                        /\ jpc[p] = "none"

\* The reference rule of classify, on the content of a parseable file.
RefIdentifier(content, u) ==
    IF ~NonEmpty(FieldOf(content, "slug")) /\ NonEmpty(FieldOf(content, "title"))
    THEN slugify(FieldOf(content, "title"), u)
    ELSE FieldOf(content, "slug")

RefClass(content, u) ==
    IF NonEmpty(FieldOf(content, GenKey)) THEN "Completed"
    ELSE IF ~NonEmpty(FieldOf(content, "image_url")) \/ ~NonEmpty(RefIdentifier(content, u))
         THEN "Skipped"
         ELSE "Eligible"

\* The parseable files main() has loaded so far.
Loaded == {p \in Paths : p < loadIdx /\ Parseable(disk0[p])}

InClass(c) == {p \in Loaded : \A u \in UUIDs : RefClass(disk0[p], u) = c}

\* C3: the driver classifies every loaded record as the reference rule does,
\* and exactly the Eligible records get a job.
C3_Classification ==
    /\ Loaded = InClass("Completed") \cup InClass("Eligible") \cup InClass("Skipped")
    /\ already_processed_count = Cardinality(InClass("Completed"))
    /\ Len(recipes_missing_image) = Cardinality(InClass("Skipped"))
    /\ {recipes_to_process[k] : k \in 1..Len(recipes_to_process)} = InClass("Eligible")
    /\ Len(recipes_to_process) = Cardinality(InClass("Eligible"))
    /\ mainPc # "load" => \A p \in Paths : jpc[p] # "none" <=> p \in InClass("Eligible")
    /\ \A p \in Loaded :
          ~NonEmpty(FieldOf(disk0[p], "image_url")) => p \notin InClass("Eligible")

\* A record with a title and no source image was skipped, and the run ended.
C3_Witness ==
    /\ mainPc = "done"
    /\ 1 \in InClass("Skipped")
    /\ NonEmpty(FieldOf(disk0[1], "title"))
    /\ ~NonEmpty(FieldOf(disk0[1], "image_url"))
    /\ jpc[1] = "none"



\* C4: a job that succeeds on its third attempt, after two attempts that
\* raised a transient error, leaves its record with generated_image_url set
\* to the URL it returned, and the run counts each succeeded job once.
C4_RetrySuccess ==
    \A p \in Paths :
        (p \in Succeeded /\ attempt[p] = 2 /\ Len(slept[p]) = 2)
            => /\ Parseable(files[p])
               /\ NonEmpty(FieldOf(files[p], GenKey))
               /\ FieldOf(files[p], GenKey) = result[p]
               /\ mainPc = "done" =>
                     /\ printed_final.printed
                     /\ printed_final.successful = Cardinality(Succeeded)

\* The run ended with a job that succeeded on its third attempt, next to a
\* job that failed.
C4_Witness ==
    /\ mainPc = "done"
    /\ \E p \in Succeeded : attempt[p] = 2 /\ slept[p] = <<2, 4>>
    /\ Failed # {}
    /\ printed_final.successful = 1

PreWriteStages == {"submit", "get", "download", "convert", "upload", "geturl"}

\* C5: the step in which a job catches a non-transient error ends the job
\* as failed, with no further attempt and no sleep; when the error comes
\* from a stage before the write-back the step writes no file, and on a
\* first attempt the file of the job is still as the run found it.  A job
\* that has ended never runs again.
C5_PermanentFails ==
    [][\A p \in Paths :
          /\ (err[p] # "permanent" /\ err'[p] = "permanent")
                => /\ jpc'[p] = "done"
                   /\ result'[p] = NULL
                   /\ attempt'[p] = attempt[p]
                   /\ slept'[p] = slept[p]
                   /\ jpc[p] \in PreWriteStages
                         => /\ files' = files
                            /\ attempt[p] = 0 => files'[p] = disk0[p]
          /\ jpc[p] = "done"
                => jpc'[p] = "done" /\ attempt'[p] = attempt[p] /\ slept'[p] = slept[p]
      ]_vars

\* A job failed on its first attempt with a non-transient error, without
\* sleeping and with its file unchanged, and the run ended.
C5_Witness ==
    /\ mainPc = "done"
    /\ \E p \in Failed :
          /\ err[p] = "permanent"
          /\ attempt[p] = 0
          /\ slept[p] = <<>>
          /\ files[p] = disk0[p]
          /\ ~NonEmpty(FieldOf(files[p], GenKey))

NotGen(pair) == pair[1] # GenKey
IsGen(pair) == pair[1] = GenKey

\* Record `after` is record `before` plus generated_image_url = v: the other
\* keys, their values and their order are the same.
PlusGen(before, after, v) ==
    /\ Len(SelectSeq(after, IsGen)) = 1
    /\ SelectSeq(after, IsGen)[1][2] = v
    /\ SelectSeq(after, NotGen) = SelectSeq(before, NotGen)

\* C6: when a job's write-back succeeds, re-loading the file yields the
\* record that was on disk before the write (and the record the run found)
\* plus generated_image_url; a slug held only in memory is not written.
C6_RoundTrip ==
    [][\A p \in Paths :
          (jpc[p] = "write" /\ jpc'[p] = "done" /\ result'[p] # NULL)
             => /\ Parseable(files'[p])
                /\ PlusGen(Load(files[p]), Load(files'[p]), result'[p])
                /\ PlusGen(Load(disk0[p]), Load(files'[p]), result'[p])
                /\ \A q \in Paths \ {p} : files'[q] = files[q]
      ]_vars

\* A job whose slug was derived in memory wrote its file, and the file has
\* no slug.
C6_Witness ==
    \E p \in Succeeded :
        /\ FieldOf(disk0[p], "slug") = <<"absent">>
        /\ NonEmpty(Get(recipe_mem[p], "slug"))
        /\ FieldOf(files[p], "slug") = <<"absent">>
        /\ FieldOf(files[p], GenKey) = result[p]
        /\ files[p] # disk0[p]

\* C7: every file holds its complete old content or its complete new
\* content (violated: a write that raises part-way leaves neither).
C7_OldOrNew ==
    \A p \in Paths :
        \/ files[p] = disk0[p]
        \/ /\ Parseable(files[p])
           /\ PlusGen(Load(disk0[p]), Load(files[p]), JobUrl(p))

\* The file is never left empty by a write-back.
C7_NeverEmptied == \A p \in Paths : disk0[p] # <<>> => files[p] # <<>>


\* C8: every job reaches a terminal state and the batch then completes,
\* whichever jobs fail; the batch completes only when every job has ended.
C8_Terminates ==
    /\ <>(mainPc = "done")
    /\ [](mainPc = "done" => \A p \in Paths : jpc[p] \in {"none", "done"})
    /\ [](mainPc = "gather" => \A k \in 1..Len(recipes_to_process) :
                                  jpc[recipes_to_process[k]] # "none")

\* More jobs than slots, two of them failed and the one that had to wait for
\* a slot succeeded, and the batch completed.
C8_Witness ==
    /\ mainPc = "done"
    /\ Cardinality(Failed) = CONCURRENT_LIMIT
    /\ Cardinality(Succeeded) = 1
    /\ Len(recipes_to_process) > CONCURRENT_LIMIT


Parsed == {p \in Paths : Parseable(disk0[p])}

\* C9: the summary of a run that processed jobs reports the counts of
\* already-completed, skipped, succeeded and failed records, which partition
\* the parseable records (violated: it prints no count of failed jobs).
C9_FourCounts ==
    (mainPc = "done" /\ printed_final.printed)
        => /\ ReportedCount("already") = already_processed_count
           /\ ReportedCount("missing") = Len(recipes_missing_image)
           /\ ReportedCount("successful") = Cardinality(Succeeded)
           /\ ReportedCount("failed") = Cardinality(Failed)
           /\ ReportedCount("already") + ReportedCount("missing")
                + ReportedCount("successful") + ReportedCount("failed")
                = Cardinality(Parsed)
           /\ ReportedCount("successful") + ReportedCount("failed")
                = Len(recipes_to_process)

\* What the summary does report: already-completed, skipped and to-process
\* partition the parseable records, and the succeeded count is the number of
\* jobs that returned a URL, so the failed jobs are the difference.
C9_PrintedCounts ==
    mainPc = "done"
        => /\ ReportedCount("total") = NumFiles
           /\ ReportedCount("already") + ReportedCount("missing") + ReportedCount("new")
                = Cardinality(Parsed)
           /\ printed_final.printed
                 => /\ ReportedCount("successful") = Cardinality(Succeeded)
                    /\ ReportedCount("new") - ReportedCount("successful")
                         = Cardinality(Failed)
           /\ ~printed_final.printed => ReportedCount("new") = 0

\* The three-record scenario: one completed, one valid, one without source
\* image, every call succeeding.
C9_Scenario ==
    /\ mainPc = "done"
    /\ Cardinality(InClass("Completed")) = 1
    /\ Cardinality(InClass("Skipped")) = 1
    /\ Cardinality(Succeeded) = 1
    /\ \A p \in Succeeded : attempt[p] = 0
    /\ ReportedCount("already") = 1
    /\ ReportedCount("missing") = 1
    /\ ReportedCount("successful") = 1
    /\ ReportedCount("new") = 1

\* C10: when the run is over, the title of every failed job is among the
\* titles the final summary lists (violated: it lists the skipped titles).
C10_FailuresListed ==
    mainPc = "done" => \A p \in Failed : JobTitle(p) \in SummaryTitles

\* The titles of the skipped records are listed when jobs ran.
C10_SkippedListed ==
    (mainPc = "done" /\ printed_final.printed)
        => \A k \in 1..Len(recipes_missing_image) :
              recipes_missing_image[k] \in SummaryTitles

\* The paths whose job succeeded in an earlier run over this store.
SucceededEarlier == UNION {earlier_runs[r] : r \in 1..Len(earlier_runs)}

\* C11: in a run over the store an earlier run left, a record whose job
\* succeeded in the earlier run is counted as already processed, gets no job
\* (so no external call is made for it) and its file is not written; the jobs
\* of the run are of records that no earlier run completed.
C11_RerunSkipsCompleted ==
    /\ \A p \in SucceededEarlier :
          /\ jpc[p] = "none"
          /\ result[p] = NULL
          /\ files[p] = disk0[p]
          /\ \A k \in 1..Len(recipes_to_process) : recipes_to_process[k] # p
          /\ p \notin warnings
          /\ NonEmpty(FieldOf(disk0[p], GenKey))
    /\ mainPc \in {"load", "gather", "done"}
          => already_processed_count >= Cardinality({p \in SucceededEarlier : p < loadIdx})
    /\ Jobs \cap SucceededEarlier = {}

\* The second run is over: a job had succeeded in the first run and got no
\* job in the second, and a job that had failed in the first run succeeded
\* in the second.
C11_Witness ==
    /\ Len(earlier_runs) = 1
    /\ mainPc = "done"
    /\ \E p \in earlier_runs[1] : jpc[p] = "none" /\ files[p] = disk0[p]
    /\ \E q \in Succeeded : q \notin earlier_runs[1]

\* C12: a step changes a record file only when it is the step in which the
\* job of that record ends as a success; so a failed job has written nothing
\* and a succeeded job has written once (violated: a write-back that raises
\* part-way has changed the file, and the job retries or fails).
C12_WriteOnlyOnSuccess ==
    [][\A p \in Paths :
          files'[p] # files[p] => (jpc'[p] = "done" /\ result'[p] # NULL)
      ]_vars

\* A record file is changed only by the write-back of its own job.
C12_OnlyOwnJobWrites ==
    [][\A p \in Paths : files'[p] # files[p] => jpc[p] = "write"]_vars

\* A job failed and its file is not as the run found it.
C12_FailedJobWrote == \E p \in Failed : files[p] # disk0[p]

\* The files that hold no record.
NoRecord == {p \in Paths : disk0[p] \in BrokenContents}

\* C13: a file that cannot be read or parsed never ends the run: once the
\* loop has passed it, it is in the warnings, in none of the three classes
\* and without a job, and when the loop is left every other file has been
\* classified and every eligible one has a job (violated: UnicodeDecodeError
\* and a JSON value that is not an object are not caught).
C13_UnreadableNeverFatal ==
    /\ mainPc # "crashed"
    /\ \A p \in NoRecord :
          /\ p < loadIdx => p \in warnings
          /\ jpc[p] = "none"
          /\ \A k \in 1..Len(recipes_to_process) : recipes_to_process[k] # p
    /\ mainPc \in {"gather", "done"}
          => /\ already_processed_count + Len(recipes_missing_image) + Len(recipes_to_process)
                  = Cardinality(Paths \ NoRecord)
             /\ \A p \in Paths \ NoRecord : RefClass(disk0[p], <<"u", "1">>) = "Eligible"
                                                 => jpc[p] # "none"

\* What the except clause of the loop does cover: an empty or truncated file
\* (JSONDecodeError) and a file that cannot be opened (IOError) are warned
\* about and skipped, and the run goes on.
C13_CaughtErrorsWarned ==
    \A p \in Paths :
        (p < loadIdx /\ ~Parseable(disk0[p]) /\ ~RaisesUncaught(disk0[p]))
            => /\ p \in warnings
               /\ jpc[p] = "none"
               /\ mainPc # "crashed"

\* The run ended in the load loop on the second file: the first record had
\* been found eligible and the third was never read, and no job was created.
C13_Crashed ==
    /\ mainPc = "crashed"
    /\ loadIdx = 2
    /\ recipes_to_process = <<1>>
    /\ Jobs = {}
    /\ warnings = {}

\* C14: no two jobs of a run have the same identifier, so no two jobs upload
\* to the same path (violated: nothing compares the slug of a record with
\* the slugs of the others, whether read from the file or made by slugify).
C14_UniqueIdentifiers ==
    \A p, q \in Jobs :
        p # q => JobSlug(p) # JobSlug(q) /\ UploadPath(p) # UploadPath(q)

\* Two records, one with the slug "b" in its file and one whose slug was
\* made from its title "B", were both uploaded to "b.webp" and both carry
\* the same generated_image_url.
C14_SamePathUploaded ==
    /\ {1, 2} \subseteq Succeeded
    /\ FieldOf(disk0[1], "slug") = <<"b">>
    /\ FieldOf(disk0[1], "title") # FieldOf(disk0[2], "title")
    /\ UploadPath(1) = UploadPath(2)
    /\ FieldOf(files[1], GenKey) = FieldOf(files[2], GenKey)

\* Punctuation in the everyday sense, among the characters of SlugAlphabet.
PunctChars == {"!", "-", "_", "|"}

NotPunct(c) == c \notin PunctChars
PunctToSpace(c) == IF c \in PunctChars THEN " " ELSE c

\* Whitespace normalization: runs of whitespace become one space, leading
\* and trailing whitespace goes.
SquashSpaces(t) == Strip(CollapseRuns(t, SpaceChars, " "), " ")

\* A title with case folded, whitespace normalized and every punctuation
\* mark deleted, or every punctuation mark read as a space.
PlainDeleted(t) == SquashSpaces(SelectSeq(MapSeq(ToLower, t), NotPunct))
PlainSpaced(t) == SquashSpaces(MapSeq(PunctToSpace, MapSeq(ToLower, t)))

\* The punctuation slugify deletes: the characters outside a-z, 0-9,
\* whitespace and hyphen after lower-casing, other than the pipe (it is
\* replaced by a space) and the underscore (C23).
DeletedChars == {"!"}
NotDeleted(c) == c \notin DeletedChars

\* A title with case folded, the deleted characters removed and whitespace
\* normalized; hyphen, pipe and underscore stay.
Canon(t) == SquashSpaces(SelectSeq(MapSeq(ToLower, t), NotDeleted))

PlainDeletedTable == {<<t, PlainDeleted(t)>> : t \in SlugInputs}
PlainSpacedTable == {<<t, PlainSpaced(t)>> : t \in SlugInputs}
CanonTable == {<<t, Canon(t)>> : t \in SlugInputs}

Lookup(table, t) == (CHOOSE pr \in table : pr[1] = t)[2]

\* slugify(t) does not fall back to a UUID.
Sluggable(t) == SlugCore(t) # <<>>

\* The title of the first file, once main() has made its slug.
SlugMade ==
    /\ mainPc = "load"
    /\ loadIdx = 2
    /\ FieldOf(disk0[1], "title") \in SlugInputs
    /\ FieldOf(disk0[1], "slug") = <<"absent">>

\* C15 as stated: any two titles that differ only by case, punctuation or
\* whitespace get the same identifier, whether punctuation is normalized by
\* deleting it or by reading it as a space (violated: slugify deletes some
\* punctuation marks and turns the hyphen and the pipe into separators).
C15_AnyPunctuation ==
    SlugMade =>
        LET t1 == FieldOf(disk0[1], "title")
            s1 == Get(recipe_mem[1], "slug")
        IN  Sluggable(t1) =>
              \/ \A t2 \in SlugInputs :
                    (Sluggable(t2) /\ Lookup(PlainDeletedTable, t2) = Lookup(PlainDeletedTable, t1))
                        => \A u \in UUIDs : slugify(t2, u) = s1
              \/ \A t2 \in SlugInputs :
                    (Sluggable(t2) /\ Lookup(PlainSpacedTable, t2) = Lookup(PlainSpacedTable, t1))
                        => \A u \in UUIDs : slugify(t2, u) = s1

\* C15, amended: the identifier main() derives from a title is never empty;
\* when the title has a letter or digit it does not depend on the UUID
\* drawn, and every title that differs from it only by case, by characters
\* slugify deletes (punctuation other than hyphen, pipe and underscore) or by
\* whitespace normalization gets the same identifier; otherwise it is the
\* fresh UUID.
C15_Slugify ==
    SlugMade =>
        LET t1 == FieldOf(disk0[1], "title")
            s1 == Get(recipe_mem[1], "slug")
        IN  /\ s1 # <<>> /\ s1 # NULL
            /\ Sluggable(t1) =>
                  /\ \A u \in UUIDs : slugify(t1, u) = s1
                  /\ \A t2 \in SlugInputs :
                        Lookup(CanonTable, t2) = Lookup(CanonTable, t1)
                            => \A u \in UUIDs : slugify(t2, u) = s1
            /\ ~Sluggable(t1) => s1 \in UUIDs
            /\ \A t2 \in SlugInputs, u \in UUIDs : slugify(t2, u) # <<>>

\* The slug "a-a" was made from the title "A a": other titles of the same
\* canonical form exist, and the job of the record succeeded under it.
C15_Witness ==
    /\ FieldOf(disk0[1], "title") = <<"A", " ", "a">>
    /\ Get(recipe_mem[1], "slug") = <<"a", "-", "a">>
    /\ Lookup(CanonTable, <<"a", " ", "a">>) = Lookup(CanonTable, <<"A", " ", "a">>)
    /\ 1 \in Succeeded

\* A punctuation-only title got a UUID as its identifier.
C15_UuidFallback ==
    /\ FieldOf(disk0[1], "title") = <<"!", "_", "!">>
    /\ Get(recipe_mem[1], "slug") \in UUIDs
    /\ jpc[1] # "none"

\* Every precondition of a run is met.
PreconditionsMet == env.dir /\ env.FAL_KEY /\ env.SUPABASE_URL /\ env.SUPABASE_KEY

\* C16: when the recipes directory or one of FAL_KEY, SUPABASE_URL and
\* SUPABASE_KEY is missing, the script never reaches the load loop: no file
\* is read, no job is created (every generation call and upload is a step of
\* a job), no file is written and nothing is counted or listed.
C16_PreconditionsFatal ==
    ~PreconditionsMet
        => /\ mainPc \in {"import", "check", "main", "exited"}
           /\ Jobs = {}
           /\ recipes_to_process = <<>>
           /\ loadIdx = 1
           /\ files = disk0
           /\ sem_value = 0
           /\ ~printed_counts.printed /\ ~printed_final.printed

\* Only FAL_KEY is missing, with an eligible record in the store: the
\* Supabase client was created, and the script ended at the test of the keys.
C16_Witness ==
    /\ mainPc = "exited"
    /\ ~env.FAL_KEY /\ env.SUPABASE_URL /\ env.SUPABASE_KEY /\ env.dir
    /\ \A u \in UUIDs : RefClass(disk0[1], u) = "Eligible"
    /\ Jobs = {}

\* Only the directory is missing: main() was entered and returned.
C16_NoDirectory ==
    /\ mainPc = "exited"
    /\ env.FAL_KEY /\ env.SUPABASE_URL /\ env.SUPABASE_KEY /\ ~env.dir

\* C17: no job makes more than 3 attempts; a job sleeps for a retry only
\* while attempts remain; a job that failed on a transient error failed on
\* its third attempt, after two transient errors and two sleeps.
C17_AtMostThreeAttempts ==
    \A p \in Paths :
        /\ attempt[p] + 1 <= 3
        /\ jpc[p] = "sleep" => (err[p] = "transient" /\ attempt[p] + 1 < 3)
        /\ (p \in Failed /\ err[p] = "transient")
              => (attempt[p] + 1 = 3 /\ Len(slept[p]) = 2)
        /\ p \in Failed => err[p] \in ErrorKinds

\* A job failed on its third attempt, every attempt having raised a
\* transient error.
C17_Witness ==
    \E p \in Failed :
        /\ err[p] = "transient"
        /\ attempt[p] = 2
        /\ Len(slept[p]) = 2
        /\ files[p] = disk0[p]

\* C18: a job that holds a slot keeps it through every stage, sleep and new
\* attempt (no step of it before its end touches the limiter); the step in
\* which it ends, as success or failure, gives the slot back, to the first
\* waiter if there is one; held and free slots add up to the capacity, and
\* when the batch is complete every slot is free.
C18_SlotHeldToTheEnd ==
    /\ [][\A p \in Paths :
             /\ (p \in Holders /\ jpc'[p] # jpc[p] /\ jpc'[p] # "done")
                   => /\ p \in Holders'
                      /\ sem_value' = sem_value
                      /\ waiters' = waiters
             /\ (p \in Holders /\ jpc'[p] = "done")
                   => /\ Cardinality(Holders') + sem_value'
                           = Cardinality(Holders) + sem_value
                      /\ IF waiters = <<>>
                         THEN sem_value' = sem_value + 1
                         ELSE /\ Head(waiters) \in Holders'
                              /\ waiters' = Tail(waiters)
                              /\ sem_value' = sem_value
             /\ jpc[p] = "done" => p \notin Holders'
       ]_vars
    /\ [](mainPc = "gather" => sem_value + Cardinality(Holders) = CONCURRENT_LIMIT)
    /\ [](printed_final.printed
            => (sem_value = CONCURRENT_LIMIT /\ Holders = {} /\ waiters = <<>>))

\* A job sleeps before its third attempt, every slot is taken and another
\* job waits for one.
C18_Witness ==
    /\ \E p \in Paths : jpc[p] = "sleep" /\ attempt[p] = 1
    /\ sem_value = 0
    /\ waiters # <<>>

\* The batch is complete with a failed and a succeeded job, and every slot
\* is free.
C18_AllFree ==
    /\ printed_final.printed
    /\ Failed # {} /\ Succeeded # {}
    /\ sem_value = CONCURRENT_LIMIT

\* The stages of one attempt, in the order of the code.
StageOrder == <<"submit", "get", "download", "convert", "upload", "geturl", "write">>

StageIndex(st) == CHOOSE k \in 1..Len(StageOrder) : StageOrder[k] = st

IsStage(st) == \E k \in 1..Len(StageOrder) : StageOrder[k] = st

\* C19: a transient error in any stage, with attempts remaining, sends the
\* job to sleep, and the sleep is followed by a new submission: a new
\* attempt begins with the first stage only, and a later stage is entered
\* only from the stage before it, in the same attempt.
C19_RetryRestarts ==
    [][\A p \in Paths :
          /\ (jpc[p] = "sleep" /\ jpc'[p] # "sleep")
                => (jpc'[p] = "submit" /\ attempt'[p] = attempt[p] + 1)
          /\ (jpc[p] # "sleep" /\ jpc'[p] = "sleep")
                => (IsStage(jpc[p]) /\ err'[p] = "transient" /\ attempt'[p] = attempt[p])
          /\ attempt'[p] # attempt[p] => jpc'[p] = "submit"
          /\ (IsStage(jpc'[p]) /\ jpc'[p] # "submit" /\ jpc'[p] # jpc[p])
                => /\ IsStage(jpc[p])
                   /\ StageIndex(jpc'[p]) = StageIndex(jpc[p]) + 1
                   /\ attempt'[p] = attempt[p]
      ]_vars

\* A job is at the submission of its second attempt, and its file shows
\* that the first attempt had got as far as the write-back.
C19_Witness ==
    \E p \in Paths :
        /\ jpc[p] = "submit"
        /\ attempt[p] = 1
        /\ files[p] # disk0[p]

\* C20: the sleeps of a job are 2, then 4: RETRY_DELAY * 2^attempt with the
\* attempt counted from 0.  A step makes a job sleep only when it catches a
\* transient error on the first or second attempt; a non-transient error
\* and an error on the third attempt are followed by no sleep.
C20_Backoff ==
    /\ [](\A p \in Paths :
             /\ slept[p] \in {<<>>, <<2>>, <<2, 4>>}
             /\ Len(slept[p]) = attempt[p] + (IF jpc[p] = "sleep" THEN 1 ELSE 0))
    /\ [][\A p \in Paths :
             /\ slept'[p] # slept[p]
                   => /\ err'[p] = "transient"
                      /\ attempt[p] < 2
                      /\ jpc'[p] = "sleep"
                      /\ slept'[p] = Append(slept[p], 2 * (2 ^ attempt[p]))
             /\ (err[p] # err'[p] /\ err'[p] = "transient" /\ attempt[p] < 2)
                   => slept'[p] # slept[p]
             /\ (jpc[p] # "done" /\ jpc'[p] = "done") => slept'[p] = slept[p]
       ]_vars

\* A job sleeps 4 after its second failed attempt, having slept 2 after the
\* first.
C20_Witness ==
    \E p \in Paths :
        /\ jpc[p] = "sleep"
        /\ attempt[p] = 1
        /\ slept[p] = <<2, 4>>

\* A job failed on a transient error in its third attempt and did not sleep
\* after it.
C20_NoSleepAtTheEnd ==
    \E p \in Failed : err[p] = "transient" /\ slept[p] = <<2, 4>> /\ attempt[p] = 2

\* The stage a job must have completed to enter stage st.
StageBefore(st) ==
    CASE st = "get" -> "submit"
      [] st = "download" -> "get"
      [] st = "convert" -> "download"
      [] st = "upload" -> "convert"
      [] st = "geturl" -> "upload"
      [] st = "write" -> "geturl"

LaterStages == {"get", "download", "convert", "upload", "geturl", "write"}

\* C21: a job enters a stage after the first only in the step in which the
\* stage before it returned, in the same attempt: generation (submit, get),
\* fetch (download), transcoding (convert), upload (upload, get_public_url),
\* write-back.  A step changes the file of a job, or ends the job with a
\* URL, only from the write-back; so a file is written only in an attempt
\* whose upload had returned.  The steps of other jobs move no job's stage.
C21_StagesInOrder ==
    [][\A p \in Paths :
          /\ (jpc'[p] \in LaterStages /\ jpc'[p] # jpc[p])
                => /\ jpc[p] = StageBefore(jpc'[p])
                   /\ attempt'[p] = attempt[p]
                   /\ err'[p] = err[p]
                   /\ files' = files
          /\ (jpc'[p] = "submit" /\ jpc'[p] # jpc[p])
                => jpc[p] \in {"created", "waiting", "sleep"}
          /\ files'[p] # files[p] => jpc[p] = "write"
          /\ (result'[p] # NULL /\ result[p] = NULL)
                => /\ jpc[p] = "write"
                   /\ result'[p] = PublicUrl(JobSlug(p))
                   /\ FieldOf(files'[p], GenKey) = result'[p]
      ]_vars

\* A job wrote its URL in its third attempt, after two attempts that
\* failed.
C21_Witness ==
    \E p \in Succeeded :
        /\ attempt[p] = 2
        /\ FieldOf(files[p], GenKey) = <<"h">> \o UploadPath(p)
        /\ FieldOf(disk0[p], GenKey) = <<"absent">>

\* The responses without an image.
NoImageResponses == Responses \ {"images"}

\* C22: the step in which handler.get() returns None or an empty dict, a
\* dict without 'images' or a dict with an empty list ends the job as
\* failed: no download, upload or write follows in the attempt, no retry,
\* and the job is not among the successes the summary counts.  A job is in
\* the download only with a response that holds an image.
C22_NoImagesFails ==
    /\ [](\A p \in Paths :
             /\ response[p] \in NoImageResponses
                   => /\ p \in Failed
                      /\ err[p] = "permanent"
                      /\ printed_final.printed
                            => printed_final.successful = Cardinality(Succeeded \ {p})
             /\ jpc[p] = "download" => response[p] = "images"
             /\ jpc[p] \in {"convert", "upload", "geturl", "write"}
                   => response[p] \notin NoImageResponses)
    /\ [][\A p \in Paths :
             (response'[p] \in NoImageResponses /\ response[p] \notin NoImageResponses)
                => /\ jpc[p] = "get"
                   /\ jpc'[p] = "done"
                   /\ result'[p] = NULL
                   /\ files' = files
                   /\ slept'[p] = slept[p]
                   /\ attempt'[p] = attempt[p]
       ]_vars

\* The second attempt of a job got a response with an empty list of
\* images: the job failed without a third attempt, its file is as the run
\* found it, and the summary counts no success.
C22_Witness ==
    /\ printed_final.printed
    /\ printed_final.successful = 0
    /\ \E p \in Failed :
          /\ response[p] = "empty_images"
          /\ attempt[p] = 1
          /\ slept[p] = <<2>>
          /\ files[p] = disk0[p]

\* Jobs failed on a response of None and on a response without the key.
C22_OtherShapes ==
    \E p \in Failed : response[p] \in {"none", "no_images_key"} /\ attempt[p] = 0

\* The characters the stated steps keep for the collapsing step: a-z, 0-9,
\* whitespace, hyphen, and the underscore the collapsing step turns into a
\* hyphen.
KeptByStatedSteps(c) == c \in LowerChars \cup DigitChars \cup SpaceChars \cup {"-", "_"}

\* The stated normalization: lower-case, strip the characters outside a-z,
\* 0-9, whitespace and hyphen, turn each run of whitespace or underscores
\* into one hyphen, collapse repeated hyphens, trim hyphens at both ends.
StatedSlug(t) ==
    LET t2 == MapSeq(ToLower, t)
        t3 == SelectSeq(t2, KeptByStatedSteps)
        t4 == CollapseRuns(t3, SpaceChars \cup {"_"}, "-")
        t5 == CollapseRuns(t4, {"-"}, "-")
    IN  Strip(t5, "-")

StatedSlugTable == {<<t, StatedSlug(t)>> : t \in SlugInputs}

HasChar(t, c) == \E k \in 1..Len(t) : t[k] = c

\* C23: the slug main() derives from a title is the result of the stated
\* steps, a UUID when that result is empty; an underscore between two words
\* gives a hyphen between them (violated: the underscore is deleted with
\* the punctuation before the step that would turn it into a hyphen, and a
\* pipe, which the stated steps delete, becomes a separator).
C23_StatedSteps ==
    SlugMade =>
        LET t1 == FieldOf(disk0[1], "title")
            s1 == Get(recipe_mem[1], "slug")
            st == Lookup(StatedSlugTable, t1)
        IN  /\ st # <<>> => s1 = st
            /\ st = <<>> => s1 \in UUIDs
            /\ t1 = <<"a", "_", "a">> => s1 = <<"a", "-", "a">>

\* On titles without underscore and pipe the slug is the result of the
\* stated steps.
C23_WithoutUnderscoreOrPipe ==
    SlugMade =>
        LET t1 == FieldOf(disk0[1], "title")
            s1 == Get(recipe_mem[1], "slug")
            st == Lookup(StatedSlugTable, t1)
        IN  (~HasChar(t1, "_") /\ ~HasChar(t1, "|"))
               => /\ st # <<>> => s1 = st
                  /\ st = <<>> => s1 \in UUIDs

\* The title "a_a" got the slug "aa".
C23_UnderscoreDropped ==
    /\ FieldOf(disk0[1], "title") = <<"a", "_", "a">>
    /\ Get(recipe_mem[1], "slug") = <<"a", "a">>
    /\ jpc[1] # "none"

\* The title "a|a" got the slug "a-a".
C23_PipeSeparates ==
    /\ FieldOf(disk0[1], "title") = <<"a", "|", "a">>
    /\ Get(recipe_mem[1], "slug") = <<"a", "-", "a">>
    /\ jpc[1] # "none"

====
